---- MODULE Spec2Model ----
(***************************************************************************)
(* The filesystem backend of jkv (src/store/fs/fs.go): one Client over a   *)
(* root directory DBDir holding DBDir/scalars/<key> files and              *)
(* DBDir/hashes/<hash>/<field> files.                                      *)
(*                                                                         *)
(* Names, fields and values are numbered: key i stands for a file name     *)
(* without path separators, names compare as their numbers (os.ReadDir     *)
(* returns entries sorted by file name), and value EmptyStr is the empty   *)
(* byte string.  The operating system is taken without spontaneous         *)
(* faults: a call fails only for the structural reason the tree gives      *)
(* (a missing file or directory).                                          *)
(***************************************************************************)
EXTENDS Integers, Sequences, FiniteSets, TLC

\* ---------------------------------------------------------------- bounds
NumKeys == 2
NumFields == 2

EmptyStr == 0

Names == 1..NumKeys
Fields == 1..NumFields
\* File contents are opaque to the backend: the empty byte string and one
\* non-empty one tell "absent", "empty" and "overwritten" apart.
Values == {EmptyStr, EmptyStr + 1}
Patterns == {"*"}

\* The variadic argument lists of Del and Exists: no key, one key, two keys.
KeyLists == {<<>>} \cup {<<k>> : k \in Names} \cup {<<k, l>> : k \in Names, l \in Names}

\* ---------------------------------------------------------------- errors
NoErr == "nil"
NotOpenErr == "DB is not open"
ErrNotExist == "ENOENT"
TypeConflict == "exists as a scalar, cannot be a hash"

\* ----------------------------------------------------------------- state
VARIABLES
    IsOpen,     \* Client.IsOpen
    dirs,       \* which of DBDir/scalars and DBDir/hashes exist
    scalars,    \* DBDir/scalars: file name -> contents
    hashes,     \* DBDir/hashes: directory name -> (file name -> contents)
    panicked,   \* the process died of a runtime panic
    last,       \* the most recent call: its arguments and what it returned
    prevFlush,  \* history: the call before the most recent one was FlushDB
    cli,        \* jkv-cli: the line ProcessCmd last handled and what it did
    procs       \* the clients of two processes that share one root directory

vars == <<IsOpen, dirs, scalars, hashes, panicked, last, prevFlush, cli, procs>>

ScalarDir == "scalars"
HashDir == "hashes"

\* ------------------------------------------------------- directory maps
EmptyDirMap == <<>>

WriteEntry(dir, name, data) ==
    [x \in (DOMAIN dir) \cup {name} |-> IF x = name THEN data ELSE dir[x]]

RemoveEntry(dir, name) ==
    [x \in (DOMAIN dir) \ {name} |-> dir[x]]

\* The names of a set in the order os.ReadDir lists them (sorted).
RECURSIVE SortedNames(_)
SortedNames(S) ==
    IF S = {} THEN <<>>
    ELSE LET m == CHOOSE x \in S : \A y \in S : x <= y
         IN  <<m>> \o SortedNames(S \ {m})

\* ------------------------------------------------------- call records
Call(op, keys, hash, field, value) ==
    [op |-> op, keys |-> keys, hash |-> hash, field |-> field, value |-> value,
     str |-> EmptyStr, status |-> "", int |-> 0, slice |-> <<>>, bool |-> FALSE,
     err |-> NoErr]

NewStringCmd(call, val, err) == [call EXCEPT !.str = val, !.err = err]
NewStatusCmd(call, val, err) == [call EXCEPT !.status = val, !.err = err]
NewIntCmd(call, val, err) == [call EXCEPT !.int = val, !.err = err]
NewStringSliceCmd(call, val, err) == [call EXCEPT !.slice = val, !.err = err]
NewBoolCmd(call, val, err) == [call EXCEPT !.bool = val, !.err = err]

NoKey == 0
NoArgs == Call("NewClient", <<>>, NoKey, NoKey, EmptyStr)

PanicErr == "panic: index out of range"

\* ------------------------------------------------------------ lifecycle
\* The storage underneath refuses an operation; the input stream is at
\* its end.
IOErr == "EIO"
EOF == "EOF"

\* Nothing was read from the input stream.
NoRead == [word |-> EmptyStr, newline |-> FALSE, err |-> NoErr]

\* No command line has been handled.
NoCli == [tokens |-> <<>>, opt_x |-> FALSE, read |-> NoRead, failAt |-> 0,
          out |-> <<>>, calls |-> <<>>, returned |-> TRUE]

\* No second process: the one client is on its own.
NoProcs == <<>>

\* Every call notes whether the call before it was FlushDB; a direct call
\* of the client involves neither the command line nor another process.
History ==
    /\ prevFlush' = (last.op = "FlushDB")
    /\ UNCHANGED <<cli, procs>>

\* NewClient: a closed client over a root directory that does not exist yet.
Init ==
    /\ IsOpen = FALSE
    /\ dirs = {}
    /\ scalars = EmptyDirMap
    /\ hashes = EmptyDirMap
    /\ panicked = FALSE
    /\ last = NoArgs
    /\ prevFlush = FALSE
    /\ cli = NoCli
    /\ procs = NoProcs

\* Variant of Open: the two directories are made afresh, empty.
OpenMakesEmptyDirs ==
    /\ ~panicked
    /\ History
    /\ dirs' = dirs \cup {ScalarDir, HashDir}
    /\ scalars' = EmptyDirMap
    /\ hashes' = EmptyDirMap
    /\ IsOpen' = TRUE
    /\ last' = Call("Open", <<>>, NoKey, NoKey, EmptyStr)
    /\ UNCHANGED panicked

\* os.MkdirAll creates the directory and every missing parent, and is a
\* no-op on a directory that exists.
Open ==
    /\ ~panicked
    /\ History
    /\ dirs' = dirs \cup {ScalarDir, HashDir}
    /\ IsOpen' = TRUE
    /\ last' = Call("Open", <<>>, NoKey, NoKey, EmptyStr)
    /\ UNCHANGED <<scalars, hashes, panicked>>

Close ==
    /\ ~panicked
    /\ History
    /\ IsOpen' = FALSE
    /\ last' = Call("Close", <<>>, NoKey, NoKey, EmptyStr)
    /\ UNCHANGED <<dirs, scalars, hashes, panicked>>

\* Variant of FlushDB: only DBDir/scalars is removed.
FlushDBScalarsOnly ==
    /\ ~panicked
    /\ History
    /\ dirs' = dirs \ {ScalarDir}
    /\ scalars' = EmptyDirMap
    /\ last' = Call("FlushDB", <<>>, NoKey, NoKey, EmptyStr)
    /\ UNCHANGED <<IsOpen, hashes, panicked>>

\* os.RemoveAll(DBDir): the whole tree goes, the flag is not touched.
FlushDB ==
    /\ ~panicked
    /\ History
    /\ dirs' = {}
    /\ scalars' = EmptyDirMap
    /\ hashes' = EmptyDirMap
    /\ last' = Call("FlushDB", <<>>, NoKey, NoKey, EmptyStr)
    /\ UNCHANGED <<IsOpen, panicked>>

\* ------------------------------------------------------------- scalars
GetCmd(key) ==
    LET call == Call("Get", <<key>>, NoKey, NoKey, EmptyStr)
    IN  IF IsOpen
        THEN IF key \in DOMAIN scalars
             THEN NewStringCmd(call, scalars[key], NoErr)
             ELSE NewStringCmd(call, EmptyStr, ErrNotExist)
        ELSE NewStringCmd(call, EmptyStr, NotOpenErr)

Get(key) ==
    /\ ~panicked
    /\ History
    /\ last' = GetCmd(key)
    /\ UNCHANGED <<IsOpen, dirs, scalars, hashes, panicked>>

\* Variant of Set: the scalars directory is made when it is missing.
SetMakesDir(key, value) ==
    LET call == Call("Set", <<key>>, NoKey, NoKey, value)
    IN  /\ ~panicked
        /\ History
        /\ IF IsOpen
           THEN /\ dirs' = dirs \cup {ScalarDir}
                /\ scalars' = WriteEntry(scalars, key, value)
                /\ last' = NewStatusCmd(call, "OK", NoErr)
           ELSE /\ UNCHANGED <<dirs, scalars>>
                /\ last' = NewStatusCmd(call, "", NotOpenErr)
        /\ UNCHANGED <<IsOpen, hashes, panicked>>

\* Variant of Set: a file that exists keeps its contents.
SetKeepsExisting(key, value) ==
    LET call == Call("Set", <<key>>, NoKey, NoKey, value)
    IN  /\ ~panicked
        /\ History
        /\ IF IsOpen
           THEN IF ScalarDir \in dirs
                THEN /\ scalars' = IF key \in DOMAIN scalars THEN scalars
                                   ELSE WriteEntry(scalars, key, value)
                     /\ last' = NewStatusCmd(call, "OK", NoErr)
                ELSE /\ scalars' = scalars
                     /\ last' = NewStatusCmd(call, "OK", ErrNotExist)
           ELSE /\ scalars' = scalars
                /\ last' = NewStatusCmd(call, "", NotOpenErr)
        /\ UNCHANGED <<IsOpen, dirs, hashes, panicked>>

\* os.WriteFile creates or truncates the file; it does not create the
\* directory, so it fails when DBDir/scalars is gone.
Set(key, value) ==
    LET call == Call("Set", <<key>>, NoKey, NoKey, value)
    IN  /\ ~panicked
        /\ History
        /\ IF IsOpen
           THEN IF ScalarDir \in dirs
                THEN /\ scalars' = WriteEntry(scalars, key, value)
                     /\ last' = NewStatusCmd(call, "OK", NoErr)
                ELSE /\ scalars' = scalars
                     /\ last' = NewStatusCmd(call, "OK", ErrNotExist)
           ELSE /\ scalars' = scalars
                /\ last' = NewStatusCmd(call, "", NotOpenErr)
        /\ UNCHANGED <<IsOpen, dirs, hashes, panicked>>

\* Variant of Del: the result is built but the file is not removed.
DelKeepsFile(keys) ==
    LET call == Call("Del", keys, NoKey, NoKey, EmptyStr)
    IN  /\ ~panicked
        /\ History
        /\ IF IsOpen
           THEN IF keys = <<>>
                THEN /\ panicked' = TRUE
                     /\ last' = [call EXCEPT !.err = PanicErr]
                ELSE IF keys[1] \in DOMAIN scalars
                THEN /\ last' = NewIntCmd(call, Len(keys), NoErr)
                     /\ UNCHANGED panicked
                ELSE /\ last' = NewIntCmd(call, Len(keys), ErrNotExist)
                     /\ UNCHANGED panicked
           ELSE /\ last' = NewIntCmd(call, 0, NotOpenErr)
                /\ UNCHANGED panicked
        /\ UNCHANGED <<IsOpen, dirs, scalars, hashes>>

\* Only keys[0] is removed; indexing an empty argument list panics.
Del(keys) ==
    LET call == Call("Del", keys, NoKey, NoKey, EmptyStr)
    IN  /\ ~panicked
        /\ History
        /\ IF IsOpen
           THEN IF keys = <<>>
                THEN /\ panicked' = TRUE
                     /\ scalars' = scalars
                     /\ last' = [call EXCEPT !.err = PanicErr]
                ELSE IF keys[1] \in DOMAIN scalars
                THEN /\ scalars' = RemoveEntry(scalars, keys[1])
                     /\ last' = NewIntCmd(call, Len(keys), NoErr)
                     /\ UNCHANGED panicked
                ELSE /\ scalars' = scalars
                     /\ last' = NewIntCmd(call, Len(keys), ErrNotExist)
                     /\ UNCHANGED panicked
           ELSE /\ scalars' = scalars
                /\ last' = NewIntCmd(call, 0, NotOpenErr)
                /\ UNCHANGED panicked
        /\ UNCHANGED <<IsOpen, dirs, hashes>>

\* No IsOpen test here: the two directories are listed whatever the flag.
KeysCmd(pattern) ==
    LET call == Call("Keys", <<>>, NoKey, NoKey, EmptyStr)
    IN  IF ScalarDir \notin dirs \/ HashDir \notin dirs
        THEN NewStringSliceCmd(call, <<>>, ErrNotExist)
        ELSE NewStringSliceCmd(call,
                 SortedNames(DOMAIN scalars) \o SortedNames(DOMAIN hashes), NoErr)

Keys(pattern) ==
    /\ ~panicked
    /\ History
    /\ last' = KeysCmd(pattern)
    /\ UNCHANGED <<IsOpen, dirs, scalars, hashes, panicked>>

\* Variant of ExistsCmd: a missing scalar is reported as (0, nil).
ExistsCmdNilOnMissing(keys) ==
    LET call == Call("Exists", keys, NoKey, NoKey, EmptyStr)
    IN  IF IsOpen
        THEN IF keys[1] \in DOMAIN scalars
             THEN NewIntCmd(call, 1, NoErr)
             ELSE NewIntCmd(call, 0, NoErr)
        ELSE NewIntCmd(call, 0, NoErr)

\* Only keys[0] is looked at; a closed store answers 0 with a nil error.
\* (The zero-key call on an open store panics: see Exists.)
ExistsCmd(keys) ==
    LET call == Call("Exists", keys, NoKey, NoKey, EmptyStr)
    IN  IF IsOpen
        THEN IF keys[1] \in DOMAIN scalars
             THEN NewIntCmd(call, 1, NoErr)
             ELSE NewIntCmd(call, 0, ErrNotExist)
        ELSE NewIntCmd(call, 0, NoErr)

Exists(keys) ==
    /\ ~panicked
    /\ History
    /\ IF IsOpen /\ keys = <<>>
       THEN /\ panicked' = TRUE
            /\ last' = [Call("Exists", keys, NoKey, NoKey, EmptyStr) EXCEPT !.err = PanicErr]
       ELSE /\ last' = ExistsCmd(keys)
            /\ UNCHANGED panicked
    /\ UNCHANGED <<IsOpen, dirs, scalars, hashes>>

\* -------------------------------------------------------------- hashes
HGetCmd(hash, key) ==
    LET call == Call("HGet", <<>>, hash, key, EmptyStr)
    IN  IF IsOpen
        THEN IF hash \in DOMAIN hashes /\ key \in DOMAIN hashes[hash]
             THEN NewStringCmd(call, hashes[hash][key], NoErr)
             ELSE NewStringCmd(call, EmptyStr, ErrNotExist)
        ELSE NewStringCmd(call, EmptyStr, NotOpenErr)

HGet(hash, key) ==
    /\ ~panicked
    /\ History
    /\ last' = HGetCmd(hash, key)
    /\ UNCHANGED <<IsOpen, dirs, scalars, hashes, panicked>>

\* Variant of HSet: the rec.Val() > 0 test is left out.
HSetNoConflictTest(hash, key, value) ==
    LET call == Call("HSet", <<>>, hash, key, value)
        rec == ExistsCmd(<<hash>>)
        olddir == IF hash \in DOMAIN hashes THEN hashes[hash] ELSE EmptyDirMap
    IN  /\ ~panicked
        /\ History
        /\ IF IsOpen
           THEN IF rec.err # NoErr
                THEN /\ last' = NewIntCmd(call, 0, rec.err)
                     /\ UNCHANGED <<dirs, hashes>>
                ELSE /\ dirs' = dirs \cup {HashDir}
                     /\ hashes' = WriteEntry(hashes, hash, WriteEntry(olddir, key, value))
                     /\ last' = NewIntCmd(call, 0, NotOpenErr)
           ELSE /\ last' = NewIntCmd(call, 0, NotOpenErr)
                /\ UNCHANGED <<dirs, hashes>>
        /\ UNCHANGED <<IsOpen, scalars, panicked>>

\* rec := c.Exists(ctx, hash): a scalar of that name gives (1, nil), no
\* such scalar gives (0, ENOENT), and HSet returns on either.  Past the two
\* tests the directory and the file are written (os.MkdirAll makes the
\* missing parents), the IntCmd(1, nil) is built and dropped, and control
\* falls through to the not-open return.
HSet(hash, key, value) ==
    LET call == Call("HSet", <<>>, hash, key, value)
        rec == ExistsCmd(<<hash>>)
        olddir == IF hash \in DOMAIN hashes THEN hashes[hash] ELSE EmptyDirMap
    IN  /\ ~panicked
        /\ History
        /\ IF IsOpen
           THEN IF rec.err # NoErr
                THEN /\ last' = NewIntCmd(call, 0, rec.err)
                     /\ UNCHANGED <<dirs, hashes>>
                ELSE IF rec.int > 0
                THEN /\ last' = NewIntCmd(call, 0, TypeConflict)
                     /\ UNCHANGED <<dirs, hashes>>
                ELSE /\ dirs' = dirs \cup {HashDir}
                     /\ hashes' = WriteEntry(hashes, hash, WriteEntry(olddir, key, value))
                     /\ last' = NewIntCmd(call, 0, NotOpenErr)
           ELSE /\ last' = NewIntCmd(call, 0, NotOpenErr)
                /\ UNCHANGED <<dirs, hashes>>
        /\ UNCHANGED <<IsOpen, scalars, panicked>>

\* Variant of HDel: a field that is not there counts as removed.
HDelIgnoresMissing(hash, key) ==
    LET call == Call("HDel", <<>>, hash, key, EmptyStr)
    IN  /\ ~panicked
        /\ History
        /\ IF IsOpen
           THEN IF hash \in DOMAIN hashes
                THEN LET entries == RemoveEntry(hashes[hash], key)
                     IN  /\ hashes' = IF DOMAIN entries = {}
                                      THEN RemoveEntry(hashes, hash)
                                      ELSE WriteEntry(hashes, hash, entries)
                         /\ last' = NewIntCmd(call, Cardinality(DOMAIN entries), NoErr)
                ELSE /\ hashes' = hashes
                     /\ last' = NewIntCmd(call, 0, ErrNotExist)
           ELSE /\ hashes' = hashes
                /\ last' = NewIntCmd(call, 0, NotOpenErr)
        /\ UNCHANGED <<IsOpen, dirs, scalars, panicked>>

\* Variant of HDel: the emptied directory is not removed.
HDelKeepsEmptyDir(hash, key) ==
    LET call == Call("HDel", <<>>, hash, key, EmptyStr)
    IN  /\ ~panicked
        /\ History
        /\ IF IsOpen
           THEN IF hash \in DOMAIN hashes /\ key \in DOMAIN hashes[hash]
                THEN LET entries == RemoveEntry(hashes[hash], key)
                     IN  /\ hashes' = WriteEntry(hashes, hash, entries)
                         /\ last' = NewIntCmd(call, Cardinality(DOMAIN entries), NoErr)
                ELSE /\ hashes' = hashes
                     /\ last' = NewIntCmd(call, 0, ErrNotExist)
           ELSE /\ hashes' = hashes
                /\ last' = NewIntCmd(call, 0, NotOpenErr)
        /\ UNCHANGED <<IsOpen, dirs, scalars, panicked>>

\* os.Remove of the field file, os.ReadDir of what is left, os.RemoveAll of
\* the directory when nothing is left; returns the number of fields left.
HDel(hash, key) ==
    LET call == Call("HDel", <<>>, hash, key, EmptyStr)
    IN  /\ ~panicked
        /\ History
        /\ IF IsOpen
           THEN IF hash \in DOMAIN hashes /\ key \in DOMAIN hashes[hash]
                THEN LET entries == RemoveEntry(hashes[hash], key)
                     IN  /\ hashes' = IF DOMAIN entries = {}
                                      THEN RemoveEntry(hashes, hash)
                                      ELSE WriteEntry(hashes, hash, entries)
                         /\ last' = NewIntCmd(call, Cardinality(DOMAIN entries), NoErr)
                ELSE /\ hashes' = hashes
                     /\ last' = NewIntCmd(call, 0, ErrNotExist)
           ELSE /\ hashes' = hashes
                /\ last' = NewIntCmd(call, 0, NotOpenErr)
        /\ UNCHANGED <<IsOpen, dirs, scalars, panicked>>

HKeysCmd(hash) ==
    LET call == Call("HKeys", <<>>, hash, NoKey, EmptyStr)
    IN  IF IsOpen
        THEN IF hash \in DOMAIN hashes
             THEN NewStringSliceCmd(call, SortedNames(DOMAIN hashes[hash]), NoErr)
             ELSE NewStringSliceCmd(call, <<>>, ErrNotExist)
        ELSE NewStringSliceCmd(call, <<>>, NotOpenErr)

HKeys(hash) ==
    /\ ~panicked
    /\ History
    /\ last' = HKeysCmd(hash)
    /\ UNCHANGED <<IsOpen, dirs, scalars, hashes, panicked>>

HExistsCmd(hash, key) ==
    LET call == Call("HExists", <<>>, hash, key, EmptyStr)
    IN  IF IsOpen
        THEN IF hash \in DOMAIN hashes /\ key \in DOMAIN hashes[hash]
             THEN NewBoolCmd(call, TRUE, NoErr)
             ELSE NewBoolCmd(call, FALSE, ErrNotExist)
        ELSE NewBoolCmd(call, FALSE, NotOpenErr)

HExists(hash, key) ==
    /\ ~panicked
    /\ History
    /\ last' = HExistsCmd(hash, key)
    /\ UNCHANGED <<IsOpen, dirs, scalars, hashes, panicked>>

\* ------------------------------------------------------- specifications
\* One call of the single client, run to completion.
Next ==
    \/ Open
    \/ Close
    \/ FlushDB
    \/ \E key \in Names : Get(key)
    \/ \E key \in Names, value \in Values : Set(key, value)
    \/ \E keys \in KeyLists : Del(keys)
    \/ \E pattern \in Patterns : Keys(pattern)
    \/ \E keys \in KeyLists : Exists(keys)
    \/ \E hash \in Names, key \in Fields : HGet(hash, key)
    \/ \E hash \in Names, key \in Fields, value \in Values : HSet(hash, key, value)
    \/ \E hash \in Names, key \in Fields : HDel(hash, key)
    \/ \E hash \in Names : HKeys(hash)
    \/ \E hash \in Names, key \in Fields : HExists(hash, key)

\* A client started over an empty store.
Spec == Init /\ [][Next]_vars

\* A client started over a root directory that an earlier session left
\* behind (Open tolerates directories that exist, Close keeps the data):
\* any scalars, and no hash or one hash, with at least one field and a name
\* no scalar has.
StoredHashes ==
    {EmptyDirMap} \cup
    UNION {[{h} -> UNION {[F -> Values] : F \in (SUBSET Fields) \ {{}}}] : h \in Names}

StoredScalars == UNION {[S -> Values] : S \in SUBSET Names}

InitStored ==
    /\ IsOpen = FALSE
    /\ dirs = {ScalarDir, HashDir}
    /\ scalars \in StoredScalars
    /\ hashes \in StoredHashes
    /\ DOMAIN scalars \cap DOMAIN hashes = {}
    /\ panicked = FALSE
    /\ last = NoArgs
    /\ prevFlush = FALSE
    /\ cli = NoCli
    /\ procs = NoProcs

SpecStored == InitStored /\ [][Next]_vars

\* ===================================================== storage failures
\* The same client when the storage underneath can refuse a directory
\* operation (no permission, a file in the way, a directory another
\* process took away): os.MkdirAll in Open, and os.ReadDir and
\* os.RemoveAll in HDel, may return an error.

\* Variant of Open under failures: the flag is not cleared first.
OpenFaultyKeepsFlag(failing) ==
    /\ ~panicked
    /\ History
    /\ IF ScalarDir \in failing
       THEN /\ dirs' = dirs
            /\ IsOpen' = IsOpen
            /\ last' = [Call("Open", <<>>, NoKey, NoKey, EmptyStr) EXCEPT !.err = IOErr]
       ELSE IF HashDir \in failing
       THEN /\ dirs' = dirs \cup {ScalarDir}
            /\ IsOpen' = IsOpen
            /\ last' = [Call("Open", <<>>, NoKey, NoKey, EmptyStr) EXCEPT !.err = IOErr]
       ELSE /\ dirs' = dirs \cup {ScalarDir, HashDir}
            /\ IsOpen' = TRUE
            /\ last' = Call("Open", <<>>, NoKey, NoKey, EmptyStr)
    /\ UNCHANGED <<scalars, hashes, panicked>>

\* Open when os.MkdirAll fails for the directories in failing: the flag is
\* cleared, the directories are made in the order scalars, hashes, and the
\* first failure returns with the flag still cleared.
OpenFaulty(failing) ==
    /\ ~panicked
    /\ History
    /\ IF ScalarDir \in failing
       THEN /\ dirs' = dirs
            /\ IsOpen' = FALSE
            /\ last' = [Call("Open", <<>>, NoKey, NoKey, EmptyStr) EXCEPT !.err = IOErr]
       ELSE IF HashDir \in failing
       THEN /\ dirs' = dirs \cup {ScalarDir}
            /\ IsOpen' = FALSE
            /\ last' = [Call("Open", <<>>, NoKey, NoKey, EmptyStr) EXCEPT !.err = IOErr]
       ELSE /\ dirs' = dirs \cup {ScalarDir, HashDir}
            /\ IsOpen' = TRUE
            /\ last' = Call("Open", <<>>, NoKey, NoKey, EmptyStr)
    /\ UNCHANGED <<scalars, hashes, panicked>>

\* The calls of HDel that can be refused after os.Remove has gone through.
HDelFaults == {"none", "ReadDir", "RemoveAll"}

\* HDel when the listing or the removal of the hash directory fails: the
\* field file is gone by then and the error is returned as it is.
HDelFaulty(hash, key, fault) ==
    LET call == Call("HDel", <<>>, hash, key, EmptyStr)
    IN  /\ ~panicked
        /\ History
        /\ IF IsOpen
           THEN IF hash \in DOMAIN hashes /\ key \in DOMAIN hashes[hash]
                THEN LET entries == RemoveEntry(hashes[hash], key)
                     IN  IF fault = "ReadDir"
                         THEN /\ hashes' = WriteEntry(hashes, hash, entries)
                              /\ last' = NewIntCmd(call, 0, IOErr)
                         ELSE IF DOMAIN entries = {}
                         THEN IF fault = "RemoveAll"
                              THEN /\ hashes' = WriteEntry(hashes, hash, entries)
                                   /\ last' = NewIntCmd(call, 0, IOErr)
                              ELSE /\ hashes' = RemoveEntry(hashes, hash)
                                   /\ last' = NewIntCmd(call, 0, NoErr)
                         ELSE /\ hashes' = WriteEntry(hashes, hash, entries)
                              /\ last' = NewIntCmd(call, Cardinality(DOMAIN entries), NoErr)
                ELSE /\ hashes' = hashes
                     /\ last' = NewIntCmd(call, 0, ErrNotExist)
           ELSE /\ hashes' = hashes
                /\ last' = NewIntCmd(call, 0, NotOpenErr)
        /\ UNCHANGED <<IsOpen, dirs, scalars, panicked>>

\* The lifecycle and the writing methods over a root an earlier session
\* left behind.
NextFaulty ==
    \/ \E failing \in SUBSET {ScalarDir, HashDir} : OpenFaulty(failing)
    \/ Close
    \/ FlushDB
    \/ \E key \in Names, value \in Values : Set(key, value)
    \/ \E keys \in KeyLists : Del(keys)
    \/ \E hash \in Names, key \in Fields, value \in Values : HSet(hash, key, value)
    \/ \E hash \in Names, key \in Fields, fault \in HDelFaults : HDelFaulty(hash, key, fault)

SpecFaulty == InitStored /\ [][NextFaulty]_vars

\* ============================================================== jkv-cli
\* The command dispatcher (src/jkv-cli/main.go) over the filesystem
\* backend it is written against, fs.JKV_DB.  That type is not among the
\* sources; its methods follow the backend contract: the same directory
\* layout, Exists as a plain yes/no, HSet creating the hash it needs.

Store == [open |-> IsOpen, dirs |-> dirs, scalars |-> scalars, hashes |-> hashes]

HasField(st, hash, key) == hash \in DOMAIN st.hashes /\ key \in DOMAIN st.hashes[hash]

FLUSHDB(st) == [st EXCEPT !.dirs = {}, !.scalars = EmptyDirMap, !.hashes = EmptyDirMap]

EXISTS(st, key) == st.open /\ key \in DOMAIN st.scalars

HEXISTS(st, hash, key) == st.open /\ HasField(st, hash, key)

GET(st, key) ==
    IF ~st.open THEN [val |-> EmptyStr, err |-> NotOpenErr]
    ELSE IF key \in DOMAIN st.scalars THEN [val |-> st.scalars[key], err |-> NoErr]
    ELSE [val |-> EmptyStr, err |-> ErrNotExist]

HGET(st, hash, key) ==
    IF ~st.open THEN [val |-> EmptyStr, err |-> NotOpenErr]
    ELSE IF HasField(st, hash, key) THEN [val |-> st.hashes[hash][key], err |-> NoErr]
    ELSE [val |-> EmptyStr, err |-> ErrNotExist]

SET(st, key, value) ==
    IF ~st.open THEN [st |-> st, err |-> NotOpenErr]
    ELSE IF ScalarDir \notin st.dirs THEN [st |-> st, err |-> ErrNotExist]
    ELSE [st |-> [st EXCEPT !.scalars = WriteEntry(st.scalars, key, value)], err |-> NoErr]

DEL(st, key) ==
    IF ~st.open THEN [st |-> st, err |-> NotOpenErr]
    ELSE IF key \notin DOMAIN st.scalars THEN [st |-> st, err |-> ErrNotExist]
    ELSE [st |-> [st EXCEPT !.scalars = RemoveEntry(st.scalars, key)], err |-> NoErr]

KEYS(st, pattern) ==
    IF ~st.open THEN [val |-> <<>>, err |-> NotOpenErr]
    ELSE IF st.dirs # {ScalarDir, HashDir} THEN [val |-> <<>>, err |-> ErrNotExist]
    ELSE [val |-> SortedNames(DOMAIN st.scalars) \o SortedNames(DOMAIN st.hashes),
          err |-> NoErr]

HKEYS(st, hash) ==
    IF ~st.open THEN [val |-> <<>>, err |-> NotOpenErr]
    ELSE IF hash \notin DOMAIN st.hashes THEN [val |-> <<>>, err |-> ErrNotExist]
    ELSE [val |-> SortedNames(DOMAIN st.hashes[hash]), err |-> NoErr]

\* fault: the storage underneath refuses this write (the contract's IOError).
HSET(st, hash, key, value, fault) ==
    IF ~st.open THEN [st |-> st, err |-> NotOpenErr]
    ELSE IF hash \in DOMAIN st.scalars THEN [st |-> st, err |-> TypeConflict]
    ELSE IF fault THEN [st |-> st, err |-> IOErr]
    ELSE LET olddir == IF hash \in DOMAIN st.hashes THEN st.hashes[hash] ELSE EmptyDirMap
         IN  [st |-> [st EXCEPT !.dirs = @ \cup {HashDir},
                                !.hashes = WriteEntry(@, hash, WriteEntry(olddir, key, value))],
              err |-> NoErr]

HDEL(st, hash, key) ==
    IF ~st.open THEN [st |-> st, err |-> NotOpenErr]
    ELSE IF ~HasField(st, hash, key) THEN [st |-> st, err |-> ErrNotExist]
    ELSE LET entries == RemoveEntry(st.hashes[hash], key)
         IN  [st |-> [st EXCEPT !.hashes = IF DOMAIN entries = {}
                                           THEN RemoveEntry(@, hash)
                                           ELSE WriteEntry(@, hash, entries)],
              err |-> NoErr]

\* ------------------------------------------------------ command lines
\* A line is its tokens (strings.Fields): the verb as typed, then words.
\* Two distinct non-empty words; a word is a key, a field or a value
\* according to where the line puts it.
Words == {EmptyStr + 1, EmptyStr + 2}

\* The lines address one name: the first word after the verb.
KeyWords == {EmptyStr + 1}

Verbs == {"FLUSHDB", "HGET", "HSET", "HDEL", "HKEYS", "HEXISTS",
          "GET", "SET", "DEL", "KEYS", "EXISTS", "get", "PING"}

ToUpper(tok) == IF tok = "get" THEN "GET" ELSE tok

\* The empty line, every verb alone, with the name and with one more
\* word, and HSET with up to four more (one pair, an odd count, two pairs).
Lines ==
    {<<>>} \cup {<<v>> : v \in Verbs} \cup
    UNION {UNION {{<<v, k>> \o a : a \in [1..n -> Words]}
                  : n \in 0..(IF v = "HSET" THEN 4 ELSE 1)} : v \in Verbs, k \in KeyWords}

\* What os.Stdin.Read hands back in stream mode: the bytes read (a word or
\* nothing, then a newline or not) and the error.
Reads == [word : {EmptyStr, EmptyStr + 1}, newline : BOOLEAN, err : {NoErr, EOF, IOErr}]

\* n of n, err = os.Stdin.Read(buf)
ReadLen(rd) == (IF rd.word = EmptyStr THEN 0 ELSE 1) + (IF rd.newline THEN 1 ELSE 0)

\* string(buf[:n-1]): the bytes read without the last one.
AllButLast(rd) == IF rd.newline THEN rd.word ELSE EmptyStr

\* ------------------------------------------------------------ replies
Line(fmt, n, s, tok) == [fmt |-> fmt, n |-> n, s |-> s, tok |-> tok]

Text(fmt) == Line(fmt, 0, EmptyStr, "")
NilReply == Text("(nil)")
OkReply == Text("OK")
SyntaxError == Text("(error) ERR syntax error")
WrongType == Text("(error) WRONGTYPE Operation against a key holding the wrong kind of value")
ArityError(verb) == Line("(error) ERR wrong number of arguments for '%s' command", 0, EmptyStr, verb)
Quoted(value) == Line("\"%s\"", 0, value, "")
Integer(n) == Line("(integer) %d", n, EmptyStr, "")
Unknown(tok) == Line("(error) ERR unknown command '%s', with args beginning with:", 0, EmptyStr, tok)

\* for i, v := range values { fmt.Printf("%d) \"%s\"\n", i+1, v) }
Enumerated(values) == [i \in 1..Len(values) |-> Line("%d) \"%s\"", i, values[i], "")]

\* One backend call the dispatcher made.
Invoke(op, args) == [op |-> op, args |-> args]

\* How ProcessCmd ended: the store it left, what it printed, the backend
\* calls it made, and whether it panicked instead of returning.
Ended(st, out, calls, panic) == [st |-> st, out |-> out, calls |-> calls, panic |-> panic]

\* ----------------------------------------------------------- ProcessCmd
\* tokens[i] of the source (counted from 0).
Tok(tokens, i) == tokens[i + 1]

CaseFLUSHDB(st, tokens) ==
    IF Len(tokens) = 1
    THEN Ended(FLUSHDB(st), <<OkReply>>, <<Invoke("FLUSHDB", <<>>)>>, FALSE)
    ELSE Ended(st, <<SyntaxError>>, <<>>, FALSE)

CaseHGET(st, tokens) ==
    IF Len(tokens) = 3
    THEN LET r == HGET(st, Tok(tokens, 1), Tok(tokens, 2))
         IN  Ended(st, <<IF r.err # NoErr THEN NilReply ELSE Quoted(r.val)>>,
                   <<Invoke("HGET", <<Tok(tokens, 1), Tok(tokens, 2)>>)>>, FALSE)
    ELSE Ended(st, <<NilReply>>, <<>>, FALSE)

\* The loop over the pairs from pair n on; failAt numbers the HSET call
\* the storage refuses (0: none).
RECURSIVE HSetPairs(_, _, _, _, _)
HSetPairs(st, tokens, n, calls, failAt) ==
    IF n < (Len(tokens) - 1) \div 2
    THEN LET hash == Tok(tokens, 1)
             key == Tok(tokens, 2 + n * 2)
             value == Tok(tokens, 2 + n * 2 + 1)
             r == HSET(st, hash, key, value, failAt = n + 1)
             made == Append(calls, Invoke("HSET", <<hash, key, value>>))
         IN  IF r.err # NoErr
             THEN Ended(r.st, <<Text("add -x support"), Text(r.err)>>, made, FALSE)
             ELSE HSetPairs(r.st, tokens, n + 1, made, failAt)
    ELSE Ended(st, <<Text("add -x support"), Integer(n)>>, calls, FALSE)

CaseHSET(st, tokens, failAt) ==
    IF Len(tokens) > 2
    THEN LET asked == <<Invoke("EXISTS", <<Tok(tokens, 1)>>)>>
         IN  IF EXISTS(st, Tok(tokens, 1))
             THEN Ended(st, <<Text("add -x support"), WrongType>>, asked, FALSE)
             ELSE IF Len(tokens) >= 4 /\ (Len(tokens) - 2) % 2 = 0
                  THEN HSetPairs(st, tokens, 0, asked, failAt)
                  ELSE Ended(st, <<Text("add -x support"), ArityError("hset")>>, asked, FALSE)
    ELSE Ended(st, <<Text("add -x support"), NilReply>>, <<>>, FALSE)

\* With two tokens the call's argument tokens[2] is out of range: the
\* runtime panics before HDEL is entered.
CaseHDEL(st, tokens) ==
    IF Len(tokens) = 2
    THEN Ended(st, <<>>, <<>>, TRUE)
    ELSE Ended(st, <<NilReply>>, <<>>, FALSE)

CaseHKEYS(st, tokens) ==
    IF Len(tokens) = 2
    THEN LET r == HKEYS(st, Tok(tokens, 1))
         IN  Ended(st, IF r.err # NoErr THEN <<NilReply>> ELSE Enumerated(r.val),
                   <<Invoke("HKEYS", <<Tok(tokens, 1)>>)>>, FALSE)
    ELSE Ended(st, <<ArityError("hkeys")>>, <<>>, FALSE)

CaseHEXISTS(st, tokens) ==
    IF Len(tokens) = 3
    THEN Ended(st, <<Integer(IF HEXISTS(st, Tok(tokens, 1), Tok(tokens, 2)) THEN 1 ELSE 0)>>,
               <<Invoke("HEXISTS", <<Tok(tokens, 1), Tok(tokens, 2)>>)>>, FALSE)
    ELSE Ended(st, <<ArityError("exists")>>, <<>>, FALSE)

CaseGET(st, tokens) ==
    IF Len(tokens) = 2
    THEN LET r == GET(st, Tok(tokens, 1))
         IN  Ended(st, <<IF r.err # NoErr THEN NilReply ELSE Quoted(r.val)>>,
                   <<Invoke("GET", <<Tok(tokens, 1)>>)>>, FALSE)
    ELSE Ended(st, <<NilReply>>, <<>>, FALSE)

\* SET key value, or SET key with the value read from the input stream.
SetReply(st, key, value) ==
    LET r == SET(st, key, value)
    IN  Ended(r.st, <<IF r.err # NoErr THEN NilReply ELSE OkReply>>,
              <<Invoke("SET", <<key, value>>)>>, FALSE)

\* Variant of the SET case: a zero-byte read is stored as the empty value.
CaseSETStoresEmpty(st, tokens, opt_x, rd) ==
    IF opt_x
    THEN IF Len(tokens) = 2
         THEN IF ReadLen(rd) = 0
              THEN SetReply(st, Tok(tokens, 1), EmptyStr)
              ELSE SetReply(st, Tok(tokens, 1), AllButLast(rd))
         ELSE Ended(st, <<ArityError("set")>>, <<>>, FALSE)
    ELSE IF Len(tokens) = 3
         THEN SetReply(st, Tok(tokens, 1), Tok(tokens, 2))
         ELSE Ended(st, <<ArityError("set")>>, <<>>, FALSE)

CaseSET(st, tokens, opt_x, rd) ==
    IF opt_x
    THEN IF Len(tokens) = 2
         THEN IF ReadLen(rd) = 0
              THEN Ended(st, <<>>, <<>>, rd.err # EOF)
              ELSE SetReply(st, Tok(tokens, 1), AllButLast(rd))
         ELSE Ended(st, <<ArityError("set")>>, <<>>, FALSE)
    ELSE IF Len(tokens) = 3
         THEN SetReply(st, Tok(tokens, 1), Tok(tokens, 2))
         ELSE Ended(st, <<ArityError("set")>>, <<>>, FALSE)

\* On success the reply quotes the function's own value, which DEL never
\* assigns: the empty string.
CaseDEL(st, tokens) ==
    IF Len(tokens) = 2
    THEN LET r == DEL(st, Tok(tokens, 1))
         IN  Ended(r.st, <<IF r.err # NoErr THEN NilReply ELSE Quoted(EmptyStr)>>,
                   <<Invoke("DEL", <<Tok(tokens, 1)>>)>>, FALSE)
    ELSE Ended(st, <<NilReply>>, <<>>, FALSE)

\* The pattern is a string of the line; the backend lists every name
\* whatever it is.
CaseKEYS(st, tokens) ==
    IF Len(tokens) = 2
    THEN LET r == KEYS(st, "*")
         IN  Ended(st, IF r.err # NoErr THEN <<NilReply>> ELSE Enumerated(r.val),
                   <<Invoke("KEYS", <<Tok(tokens, 1)>>)>>, FALSE)
    ELSE Ended(st, <<ArityError("keys")>>, <<>>, FALSE)

CaseEXISTS(st, tokens) ==
    IF Len(tokens) = 2
    THEN Ended(st, <<Integer(IF EXISTS(st, Tok(tokens, 1)) THEN 1 ELSE 0)>>,
               <<Invoke("EXISTS", <<Tok(tokens, 1)>>)>>, FALSE)
    ELSE Ended(st, <<ArityError("exists")>>, <<>>, FALSE)

\* The switch on the upper-cased verb.
Switch(st, tokens, opt_x, rd, failAt) ==
    LET verb == ToUpper(Tok(tokens, 0))
    IN  CASE verb = "FLUSHDB" -> CaseFLUSHDB(st, tokens)
          [] verb = "HGET" -> CaseHGET(st, tokens)
          [] verb = "HSET" -> CaseHSET(st, tokens, failAt)
          [] verb = "HDEL" -> CaseHDEL(st, tokens)
          [] verb = "HKEYS" -> CaseHKEYS(st, tokens)
          [] verb = "HEXISTS" -> CaseHEXISTS(st, tokens)
          [] verb = "GET" -> CaseGET(st, tokens)
          [] verb = "SET" -> CaseSET(st, tokens, opt_x, rd)
          [] verb = "DEL" -> CaseDEL(st, tokens)
          [] verb = "KEYS" -> CaseKEYS(st, tokens)
          [] verb = "EXISTS" -> CaseEXISTS(st, tokens)
          [] OTHER -> Ended(st, <<Unknown(Tok(tokens, 0))>>, <<>>, FALSE)

\* One line handled by ProcessCmd; rd and failAt are what the input
\* stream and the storage do during it.
ProcessCmd(tokens, rd, failAt) ==
    /\ ~panicked
    /\ LET r == IF Len(tokens) = 0
                THEN Ended(Store, <<>>, <<>>, FALSE)
                ELSE Switch(Store, tokens, cli.opt_x, rd, failAt)
       IN  /\ dirs' = r.st.dirs
           /\ scalars' = r.st.scalars
           /\ hashes' = r.st.hashes
           /\ panicked' = r.panic
           /\ cli' = [tokens |-> tokens, opt_x |-> cli.opt_x, read |-> rd,
                      failAt |-> failAt, out |-> r.out, calls |-> r.calls,
                      returned |-> ~r.panic]
    /\ UNCHANGED <<IsOpen, last, prevFlush, procs>>

\* The input stream is read only by SET in stream mode; the storage is
\* written pair by pair only by a well-formed HSET.
ReadsOf(tokens, opt_x) ==
    IF opt_x /\ Len(tokens) = 2 /\ ToUpper(Tok(tokens, 0)) = "SET" THEN Reads ELSE {NoRead}

FaultsOf(tokens) ==
    IF Len(tokens) >= 4 /\ (Len(tokens) - 2) % 2 = 0 /\ ToUpper(Tok(tokens, 0)) = "HSET"
    THEN 0..((Len(tokens) - 1) \div 2)
    ELSE {0}

\* main with -f: NewJKVClient, Open, then ProcessCmd line after line;
\* the flag -x is given or not.
InitCli ==
    /\ IsOpen = TRUE
    /\ dirs = {ScalarDir, HashDir}
    /\ scalars = EmptyDirMap
    /\ hashes = EmptyDirMap
    /\ panicked = FALSE
    /\ last = NoArgs
    /\ prevFlush = FALSE
    /\ cli \in {[NoCli EXCEPT !.opt_x = x] : x \in BOOLEAN}
    /\ procs = NoProcs

NextCli ==
    \E tokens \in Lines : \E rd \in ReadsOf(tokens, cli.opt_x) :
        \E failAt \in FaultsOf(tokens) : ProcessCmd(tokens, rd, failAt)

SpecCli == InitCli /\ [][NextCli]_vars

\* ======================================================= two processes
\* Two processes, each with its own Client, over one root directory.  The
\* backend takes no lock: every system call is a step of its own, so
\* HSet's test of the scalar (Exists) and its write (MkdirAll, WriteFile)
\* are two steps another process can come between.  Set is the one call
\* os.WriteFile.
Procs == {"p", "q"}

\* A process's client: closed, and in no call.
IdleClient == [open |-> FALSE, pc |-> "idle", op |-> "NewClient",
               hash |-> NoKey, key |-> NoKey, value |-> EmptyStr,
               int |-> 0, err |-> NoErr]

\* What a finished call leaves in the process: the call and its result.
Returned(client, op, hash, key, value, int, err) ==
    [client EXCEPT !.pc = "idle", !.op = op, !.hash = hash, !.key = key,
                   !.value = value, !.int = int, !.err = err]

\* Exists(key) of a client with the given IsOpen over the shared tree.
ExistsOf(open, key) ==
    IF open
    THEN IF key \in DOMAIN scalars
         THEN [int |-> 1, err |-> NoErr]
         ELSE [int |-> 0, err |-> ErrNotExist]
    ELSE [int |-> 0, err |-> NoErr]

ProcOpen(p) ==
    /\ procs[p].pc = "idle"
    /\ dirs' = {ScalarDir, HashDir}
    /\ procs' = [procs EXCEPT ![p] =
                    Returned([@ EXCEPT !.open = TRUE], "Open", NoKey, NoKey, EmptyStr, 0, NoErr)]
    /\ UNCHANGED <<IsOpen, scalars, hashes, panicked, last, prevFlush, cli>>

ProcSet(p, key, value) ==
    /\ procs[p].pc = "idle"
    /\ IF procs[p].open
       THEN IF ScalarDir \in dirs
            THEN /\ scalars' = WriteEntry(scalars, key, value)
                 /\ procs' = [procs EXCEPT ![p] = Returned(@, "Set", NoKey, key, value, 0, NoErr)]
            ELSE /\ scalars' = scalars
                 /\ procs' = [procs EXCEPT ![p] = Returned(@, "Set", NoKey, key, value, 0, ErrNotExist)]
       ELSE /\ scalars' = scalars
            /\ procs' = [procs EXCEPT ![p] = Returned(@, "Set", NoKey, key, value, 0, NotOpenErr)]
    /\ UNCHANGED <<IsOpen, dirs, hashes, panicked, last, prevFlush, cli>>

\* HSet in two steps.  From "idle": the IsOpen test and Exists, which
\* returns from HSet on an error or on a scalar and otherwise goes on to
\* "write".  From "write": MkdirAll and WriteFile for the arguments the
\* call was entered with, then the fall through to the not-open return.
ProcHSet(p, hash, key, value) ==
    /\ IF procs[p].pc = "idle"
       THEN LET rec == ExistsOf(procs[p].open, hash)
            IN  /\ procs' = [procs EXCEPT ![p] =
                        IF ~procs[p].open
                        THEN Returned(@, "HSet", hash, key, value, 0, NotOpenErr)
                        ELSE IF rec.err # NoErr
                        THEN Returned(@, "HSet", hash, key, value, 0, rec.err)
                        ELSE IF rec.int > 0
                        THEN Returned(@, "HSet", hash, key, value, 0, TypeConflict)
                        ELSE [Returned(@, "HSet", hash, key, value, 0, NoErr)
                                 EXCEPT !.pc = "write"]]
                /\ UNCHANGED <<dirs, hashes>>
       ELSE /\ procs[p].pc = "write"
            /\ hash = procs[p].hash
            /\ key = procs[p].key
            /\ value = procs[p].value
            /\ LET olddir == IF hash \in DOMAIN hashes THEN hashes[hash] ELSE EmptyDirMap
               IN  /\ dirs' = dirs \cup {HashDir}
                   /\ hashes' = WriteEntry(hashes, hash, WriteEntry(olddir, key, value))
            /\ procs' = [procs EXCEPT ![p] = Returned(@, "HSet", hash, key, value, 0, NotOpenErr)]
    /\ UNCHANGED <<IsOpen, scalars, panicked, last, prevFlush, cli>>

InitRace ==
    /\ IsOpen = FALSE
    /\ dirs = {}
    /\ scalars = EmptyDirMap
    /\ hashes = EmptyDirMap
    /\ panicked = FALSE
    /\ last = NoArgs
    /\ prevFlush = FALSE
    /\ cli = NoCli
    /\ procs = [p \in Procs |-> IdleClient]

NextRace ==
    \/ \E p \in Procs : ProcOpen(p)
    \/ \E p \in Procs, key \in Names, value \in Values : ProcSet(p, key, value)
    \/ \E p \in Procs, hash \in Names, key \in Fields, value \in Values :
          ProcHSet(p, hash, key, value)

SpecRace == InitRace /\ [][NextRace]_vars

\* ================================================================ claims

\* C1 (I1), from an empty store: no name is at once a scalar file and a
\* hash directory, after any sequence of calls of the single client.
C1_NoNameBothScalarAndHash == DOMAIN scalars \cap DOMAIN hashes = {}

\* An HSet on a free name has run on an open store that holds a scalar.
C1_Witness ==
    /\ IsOpen
    /\ last.op = "HSet"
    /\ last.hash \notin DOMAIN scalars
    /\ DOMAIN scalars # {}

\* C2: on an open store where h is a scalar, HSet(h, f, v) returns the
\* type-conflict error and writes nothing: directories, scalars and hashes
\* are as before, and h is no hash afterwards.
C2_HSetOnScalarRejected ==
    [][(IsOpen /\ last'.op = "HSet" /\ last'.hash \in DOMAIN scalars)
         => /\ last'.err = TypeConflict
            /\ last'.int = 0
            /\ <<dirs, scalars, hashes>>' = <<dirs, scalars, hashes>>
            /\ last'.hash \notin DOMAIN hashes']_vars

C2_Witness ==
    /\ last.op = "HSet"
    /\ last.err = TypeConflict
    /\ last.hash \in DOMAIN scalars
    /\ last.hash \notin DOMAIN hashes

ContractOps ==
    {"Get", "Set", "Del", "Exists", "Keys", "HGet", "HSet", "HDel", "HKeys",
     "HExists", "FlushDB"}

\* C3 (I2): while the store is closed every contract method fails with
\* the not-open error, returns no stored data and changes no stored data.
C3_ClosedStoreServesNothing ==
    [][(~IsOpen /\ last'.op \in ContractOps)
         => /\ last'.err = NotOpenErr
            /\ last'.str = EmptyStr
            /\ last'.slice = <<>>
            /\ last'.int = 0
            /\ ~last'.bool
            /\ <<dirs, scalars, hashes>>' = <<dirs, scalars, hashes>>]_vars

\* C4: on an open store whose directories exist, Set(k, v) returns no
\* error and Get(k) then returns v with no error, whatever k held before.
C4_SetThenGet ==
    [][\A k \in Names, v \in Values :
          (IsOpen /\ dirs = {ScalarDir, HashDir}
             /\ last'.op = "Set" /\ last'.keys = <<k>> /\ last'.value = v)
          => /\ last'.err = NoErr
             /\ last'.status = "OK"
             /\ GetCmd(k)'.str = v
             /\ GetCmd(k)'.err = NoErr]_vars

\* A Set has returned and the key holds the value it was given, next to
\* another scalar.
C4_Witness ==
    /\ last.op = "Set"
    /\ last.err = NoErr
    /\ last.keys[1] \in DOMAIN scalars
    /\ scalars[last.keys[1]] = last.value
    /\ DOMAIN scalars # {last.keys[1]}

\* C5: on an open store where h is no scalar, HSet(h, f, v) returns no
\* error and leaves hash h with field f = v: HGet(h, f) returns v and
\* HKeys(h) lists f.
C5_HSetCreatesField ==
    [][\A h \in Names, f \in Fields, v \in Values :
          (IsOpen /\ h \notin DOMAIN scalars
             /\ last'.op = "HSet" /\ last'.hash = h /\ last'.field = f /\ last'.value = v)
          => /\ last'.err = NoErr
             /\ h \in DOMAIN hashes'
             /\ HGetCmd(h, f)'.err = NoErr
             /\ HGetCmd(h, f)'.str = v
             /\ \E i \in DOMAIN HKeysCmd(h)'.slice : HKeysCmd(h)'.slice[i] = f]_vars

\* C6 (I3): every hash directory holds at least one field; when HDel
\* returns 0 fields left, the hash is gone and HKeys of it fails with
\* not-found.
C6_NoEmptyHash ==
    /\ \A h \in DOMAIN hashes : DOMAIN hashes[h] # {}
    /\ (last.op = "HDel" /\ last.err = NoErr /\ last.int = 0)
         => /\ last.hash \notin DOMAIN hashes
            /\ HKeysCmd(last.hash).err = ErrNotExist
            /\ HKeysCmd(last.hash).slice = <<>>

\* HDel has removed the last field of a hash.
C6_Witness ==
    /\ last.op = "HDel"
    /\ last.err = NoErr
    /\ last.int = 0
    /\ last.hash \notin DOMAIN hashes

\* C7: on an open store, after Del(k) of a scalar k that exists,
\* Exists(k) reports 0 and Get(k) fails with not-found.
C7_DelThenAbsent ==
    [][\A k \in Names :
          (IsOpen /\ k \in DOMAIN scalars /\ last'.op = "Del" /\ last'.keys = <<k>>)
          => /\ ExistsCmd(<<k>>)'.int = 0
             /\ GetCmd(k)'.err = ErrNotExist
             /\ GetCmd(k)'.str = EmptyStr]_vars

\* Del(k) has removed a scalar and left another one in place.
C7_Witness ==
    /\ last.op = "Del"
    /\ Len(last.keys) = 1
    /\ last.err = NoErr
    /\ last.keys[1] \notin DOMAIN scalars
    /\ DOMAIN scalars # {}

\* C8: FlushDB followed by Open leaves an open, empty store: Keys returns
\* the empty list with no error and Get, Exists, HGet, HKeys and HExists
\* report absence for every name and field.
C8_FlushThenOpenEmpty ==
    [][(last.op = "FlushDB" /\ last'.op = "Open")
         => /\ IsOpen'
            /\ last'.err = NoErr
            /\ \A p \in Patterns : KeysCmd(p)'.slice = <<>> /\ KeysCmd(p)'.err = NoErr
            /\ \A k \in Names :
                  /\ GetCmd(k)'.err = ErrNotExist
                  /\ ExistsCmd(<<k>>)'.int = 0
                  /\ HKeysCmd(k)'.err = ErrNotExist
                  /\ \A f \in Fields :
                        /\ HGetCmd(k, f)'.err = ErrNotExist
                        /\ ~HExistsCmd(k, f)'.bool]_vars

\* Open has run right after FlushDB.
C8_Witness ==
    /\ last.op = "Open"
    /\ prevFlush
    /\ IsOpen
    /\ dirs = {ScalarDir, HashDir}

\* C9: FlushDB removes every scalar, every hash and the directories and
\* leaves IsOpen as it was; the tree then stays absent under every call
\* but Open, and Set and HSet on the open store fail.
C9_FlushRemovesAll ==
    [][/\ (last'.op = "FlushDB")
            => /\ dirs' = {}
               /\ scalars' = EmptyDirMap
               /\ hashes' = EmptyDirMap
               /\ IsOpen' = IsOpen
       /\ (dirs = {} /\ last'.op # "Open")
            => /\ dirs' = {}
               /\ scalars' = EmptyDirMap
               /\ hashes' = EmptyDirMap
       /\ (IsOpen /\ dirs = {} /\ last'.op \in {"Set", "HSet"})
            => last'.err = ErrNotExist]_vars

\* Set or HSet has failed on the open store right after FlushDB.
C9_Witness ==
    /\ prevFlush
    /\ IsOpen
    /\ last.op \in {"Set", "HSet"}
    /\ last.err = ErrNotExist
    /\ dirs = {}

\* C10: Open and Close change no scalar and no hash field (so neither does
\* Close followed by Open); Open returning nil leaves the store open, and
\* Close leaves it closed.
C10_LifecycleKeepsData ==
    [][(last'.op \in {"Open", "Close"})
         => /\ scalars' = scalars
            /\ hashes' = hashes
            /\ (last'.op = "Open" /\ last'.err = NoErr) => IsOpen'
            /\ (last'.op = "Close") => ~IsOpen']_vars

\* Open has run over a store that holds a scalar and a hash.
C10_Witness ==
    /\ last.op = "Open"
    /\ last.err = NoErr
    /\ IsOpen
    /\ DOMAIN scalars # {}
    /\ DOMAIN hashes # {}

\* The names a returned list holds.
Elems(slice) == {slice[i] : i \in DOMAIN slice}

\* C11: on an open store Keys returns every scalar name and every hash
\* name, nothing else, each name once.
C11_KeysExactlyNames ==
    (IsOpen /\ last.op = "Keys")
      => /\ Elems(last.slice) = DOMAIN scalars \cup DOMAIN hashes
         /\ Len(last.slice) = Cardinality(DOMAIN scalars \cup DOMAIN hashes)

\* C12: on an open store Exists(keys...) with at least one key returns how
\* many of the given keys exist as scalars.
C12_ExistsCountsKeys ==
    (IsOpen /\ last.op = "Exists" /\ last.keys # <<>>)
      => last.int = Cardinality({i \in DOMAIN last.keys : last.keys[i] \in DOMAIN scalars})

\* C13: on an open store Del(k) of a scalar that is not there and
\* HDel(h, f) of a field that is not there return the not-found error and
\* change no directory, scalar or hash.
C13_DeleteMissingFails ==
    [][/\ \A k \in Names :
            (IsOpen /\ last'.op = "Del" /\ last'.keys = <<k>> /\ k \notin DOMAIN scalars)
            => /\ last'.err = ErrNotExist
               /\ <<dirs, scalars, hashes>>' = <<dirs, scalars, hashes>>
       /\ \A h \in Names, f \in Fields :
            (IsOpen /\ last'.op = "HDel" /\ last'.hash = h /\ last'.field = f
               /\ ~(h \in DOMAIN hashes /\ f \in DOMAIN hashes[h]))
            => /\ last'.err = ErrNotExist
               /\ <<dirs, scalars, hashes>>' = <<dirs, scalars, hashes>>]_vars

\* HDel has failed on a field that a hash with other fields does not hold.
C13_Witness ==
    /\ IsOpen
    /\ last.op = "HDel"
    /\ last.err = ErrNotExist
    /\ last.hash \in DOMAIN hashes
    /\ last.field \notin DOMAIN hashes[last.hash]

\* C14: on an open store Exists(k) and HExists(h, f) change nothing and
\* answer with a nil error: 1 / true when the scalar or field is there,
\* 0 / false when it, its hash or the whole root is missing.
C14_ExistsReadsWithoutError ==
    [][/\ \A k \in Names :
            (IsOpen /\ last'.op = "Exists" /\ last'.keys = <<k>>)
            => /\ last'.err = NoErr
               /\ last'.int = (IF k \in DOMAIN scalars THEN 1 ELSE 0)
               /\ <<dirs, scalars, hashes>>' = <<dirs, scalars, hashes>>
       /\ \A h \in Names, f \in Fields :
            (IsOpen /\ last'.op = "HExists" /\ last'.hash = h /\ last'.field = f)
            => /\ last'.err = NoErr
               /\ last'.bool = (h \in DOMAIN hashes /\ f \in DOMAIN hashes[h])
               /\ <<dirs, scalars, hashes>>' = <<dirs, scalars, hashes>>]_vars

\* C15: no call of a contract method, whatever its argument list, ends in
\* a panic of the process.
C15_NoCallPanics == ~panicked

\* C16: no line makes ProcessCmd abort or panic: whatever the verb, the
\* token count, the backend's answer and the stream mode, every line
\* handled so far returned control to the read loop.
C16_ProcessCmdReturns == cli.returned

\* The verbs of the command table and the token count the table gives
\* each of them.
FixedVerbs == {"GET", "SET", "DEL", "EXISTS", "KEYS", "HGET", "HSET", "HDEL",
               "HKEYS", "HEXISTS", "FLUSHDB"}

ArityOk(verb, n, opt_x) ==
    CASE verb = "FLUSHDB" -> n = 1
      [] verb \in {"GET", "DEL", "EXISTS", "KEYS", "HKEYS", "HDEL"} -> n = 2
      [] verb \in {"HGET", "HEXISTS"} -> n = 3
      [] verb = "SET" -> n = (IF opt_x THEN 2 ELSE 3)
      [] verb = "HSET" -> n >= 4 /\ (n - 2) % 2 = 0

IsArityReply(line) == line.fmt \in {SyntaxError.fmt, ArityError("").fmt}

\* The line handled last names a verb of the table with a token count the
\* table does not give it.
ArityMismatch ==
    /\ cli.tokens # <<>>
    /\ ToUpper(Tok(cli.tokens, 0)) \in FixedVerbs
    /\ ~ArityOk(ToUpper(Tok(cli.tokens, 0)), Len(cli.tokens), cli.opt_x)

\* C17: a line whose token count does not match its verb's arity is
\* answered with a syntax/arity error and makes no backend call at all.
C17_ArityMismatchRejected ==
    ArityMismatch =>
        /\ cli.returned
        /\ cli.out # <<>>
        /\ IsArityReply(cli.out[Len(cli.out)])
        /\ cli.calls = <<>>

\* An HSET line with one field/value pair or more.
WellFormedHSet(tokens) ==
    /\ Len(tokens) >= 4
    /\ (Len(tokens) - 2) % 2 = 0
    /\ ToUpper(Tok(tokens, 0)) = "HSET"

\* The HSET calls for the first k pairs of the line, left to right.
PairCalls(tokens, k) ==
    [i \in 1..k |-> Invoke("HSET", <<Tok(tokens, 1), Tok(tokens, 2 * i), Tok(tokens, 2 * i + 1)>>)]

\* C18: a well-formed HSET line with N pairs on a name that is not a scalar
\* calls the backend's HSET once per pair, left to right; when every call
\* succeeds the reply is "(integer) N"; when call i fails no later pair is
\* tried or written and the reply is the count of pairs attempted (i, or
\* i - 1 counting only the pairs that went through).
C18_HSetPairsInOrder ==
    [][LET tokens == cli'.tokens
           N == (Len(tokens) - 2) \div 2
           i == cli'.failAt
           reply == cli'.out[Len(cli'.out)]
       IN  (WellFormedHSet(tokens) /\ Tok(tokens, 1) \notin DOMAIN scalars)
           => /\ cli'.returned
              /\ cli'.calls = <<Invoke("EXISTS", <<Tok(tokens, 1)>>)>>
                              \o PairCalls(tokens, IF i = 0 THEN N ELSE i)
              /\ (i = 0) => reply = Integer(N)
              /\ (i = 1) => hashes' = hashes
              /\ (i # 0) => reply \in {Integer(i), Integer(i - 1)}]_vars

\* C19: the line "HDEL hash field" naming a field that exists makes the
\* dispatcher call the backend's HDEL(hash, field), and afterwards the
\* field is not in the store.
C19_HDelLineRemovesField ==
    [][LET tokens == cli'.tokens
       IN  (/\ Len(tokens) = 3
            /\ ToUpper(Tok(tokens, 0)) = "HDEL"
            /\ HasField(Store, Tok(tokens, 1), Tok(tokens, 2)))
           => /\ cli'.calls = <<Invoke("HDEL", <<Tok(tokens, 1), Tok(tokens, 2)>>)>>
              /\ ~HasField(Store', Tok(tokens, 1), Tok(tokens, 2))]_vars

\* C20: the interleaving that makes h a scalar and a hash at once.  A
\* process that enters HSet(h, f, v) with its client open while h is no
\* scalar passes the test and stands before the write; the other process's
\* Set(h, v2) can come in between; and the write, taken when h has become
\* a scalar, leaves h in both namespaces.
C20_HSetRacesWithSet ==
    [][\A p \in Procs :
          LET h == procs'[p].hash
          IN  /\ (/\ procs[p].pc = "idle"
                  /\ procs[p].open
                  /\ procs'[p] # procs[p]
                  /\ procs'[p].op = "HSet"
                  /\ h \notin DOMAIN scalars)
                 => procs'[p].pc = "write"
              /\ (/\ procs[p].pc = "write"
                  /\ procs'[p].pc = "idle"
                  /\ h \in DOMAIN scalars)
                 => h \in DOMAIN scalars' \cap DOMAIN hashes']_vars

\* C21: Open leaves the store open only when both directories are there
\* and it returns nil; when the creation of either directory fails, Open
\* returns the error and the store is closed, open before the call or not.
C21_OpenFlagOnlyOnSuccess ==
    [][/\ (last'.op = "Open" /\ IsOpen')
            => /\ last'.err = NoErr
               /\ dirs' = {ScalarDir, HashDir}
       /\ \A failing \in SUBSET {ScalarDir, HashDir} :
            (failing # {} /\ OpenFaulty(failing))
            => /\ last'.err # NoErr
               /\ ~IsOpen']_vars

\* Open has failed right after FlushDB: the scalars directory is made
\* again, the hashes directory is refused, and the store is closed.
C21_Witness ==
    /\ last.op = "Open"
    /\ last.err = IOErr
    /\ ~IsOpen
    /\ prevFlush
    /\ dirs = {ScalarDir}

\* The line handled in the step is "SET key" under the stream flag.
StreamSet(tokens) ==
    /\ cli.opt_x
    /\ Len(tokens) = 2
    /\ ToUpper(Tok(tokens, 0)) = "SET"

C23_WritesAllOrNothing ==
    [][(last'.op \in {"Set", "Del", "HSet", "HDel"})
         => /\ (last'.err # NoErr) => <<scalars, hashes>>' = <<scalars, hashes>>
            /\ (<<scalars, hashes>>' # <<scalars, hashes>>) => last'.err = NoErr]_vars
====
